---- MODULE Spec2Model ----
(***************************************************************************)
(* Session lifecycle of the multi-tenant WhatsApp gateway.                 *)
(*                                                                         *)
(* The repository holds three versions of the server:                      *)
(*   "P"  src/unnamed/part_000          (templates + hybrid replies)       *)
(*   "A"  src/wa-server.js, lines 1-318 (Supabase auth state)              *)
(*   "B"  src/wa-server.js, lines 320-772 (file auth state, no reconnect)  *)
(* The variable `variant` fixes which one runs; every handler below is     *)
(* translated per version.                                                 *)
(*                                                                         *)
(* Node runs handlers on one thread: a handler runs without interruption   *)
(* up to its next `await`, so every action below is one such synchronous   *)
(* stretch.  A suspended handler is a task record in the bag `tasks`.      *)
(***************************************************************************)
EXTENDS Integers, Sequences, FiniteSets, Bags, TLC

VARIABLES variant, tenants, sessions, socks, db, tasks, resp, left, keys, out

vars == <<variant, tenants, sessions, socks, db, tasks, resp, left, keys, out>>

\* ------------------------------------------------------------------ bounds
\* How many requests and transport events the environment issues in a run.
MaxEnv == 4

\* ------------------------------------------------------------- value sets
Variants == {"P", "A", "B"}
\* Every tenant id; `tenants` holds the ones a run sends requests for.
TenantIds == {"t1", "t2"}
QRs == {"q1", "q2"}
NULL == "null"
KEEP == "-"
NoSock == 0

\* src/unnamed/part_000:345-357: the events a send-template request may name;
\* only the first has an active row in message_templates.
Events == {"booking_confirmed", "no_template"}

HasTemplate(t, e) == e = "booking_confirmed" \/ (e = "pricing_pitch" /\ t = "t1")

\* ---------------------------------------------------------- persisted row
\* One whatsapp_sessions row per tenant plus the tenants.wa_connected mirror.
\* auth = 0 is auth_state null; auth = n > 0 is the serialized bundle whose
\* creds are at revision n.
FreshRow == [status |-> "disconnected", qr |-> NULL, auth |-> 0, wa |-> 0]

\* A row left by an earlier run of the process, which had paired the tenant.
StaleRow == [status |-> "connected", qr |-> NULL, auth |-> 1, wa |-> 1]

\* No row for the tenant: nothing in the code inserts one, and
\* update(...).eq("tenant_id", t) then matches nothing.
NoRow == [status |-> "none", qr |-> NULL, auth |-> 0, wa |-> 0]

\* An update leaves the columns it does not name as they are.
W(st, q, a, w) == [status |-> st, qr |-> q, auth |-> a, wa |-> w]

ApplyWrite(row, w) ==
  IF row = NoRow THEN NoRow
  ELSE [status |-> IF w.status = KEEP THEN row.status ELSE w.status,
        qr     |-> IF w.qr = KEEP THEN row.qr ELSE w.qr,
        auth   |-> IF w.auth = -1 THEN row.auth ELSE w.auth,
        wa     |-> IF w.wa = -1 THEN row.wa ELSE w.wa]

\* What a reader of the row gets: `data?.status || "disconnected"`,
\* `data?.qr_data || null`.
ReadStatus(row) == IF row = NoRow THEN "disconnected" ELSE row.status

ReadQr(row) == row.qr

\* ------------------------------------------------------------------ tasks
\* A suspended handler: its kind k, tenant t, the socket s it closed over (or
\* NoSock), where it waits (pc), the auth_state it read (a), the store updates
\* it still has to issue one after the other (ws), who called it (c) and the
\* event key of a send-template request (e).
Task(k, t, s, pc, a, ws, c, e) ==
  [k |-> k, t |-> t, s |-> s, pc |-> pc, a |-> a, ws |-> ws, c |-> c, e |-> e]

Add(b, x) == b (+) SetToBag({x})

Del(b, x) == b (-) SetToBag({x})

Running == BagToSet(tasks)

\* The getOrCreateSession calls past their registry check and not yet at
\* sessions.set.
Creating(t) == {x \in Running : x.k = "gocs" /\ x.t = t}

\* ---------------------------------------------------------------- replies
\* resp is the HTTP response the step just taken has sent, NoResp when it sent
\* none.
NoResp ==
  [route |-> "none", t |-> "-", code |-> 0, ok |-> KEEP, status |-> KEEP, qr |-> KEEP,
   s |-> 0, error |-> KEEP]

Reply(route, t, code, ok, st, q, s) ==
  [route |-> route, t |-> t, code |-> code, ok |-> ok, status |-> st, qr |-> q,
   s |-> s, error |-> KEEP]

\* -------------------------------------------------- handlers' own outputs
\* out is what the event handler step just taken has done, NoOut when the
\* step was none: the socket s it ran on, the message's remoteJid and fromMe
\* (from, me), whether it handed the text to the reply engine (fwd), whether the engine found a pricing keyword (price),
\* whether the AI backend was called (ai), the reply it sent (sent, to) and
\* what became of an error (err).
NoOut ==
  [s |-> 0, from |-> <<>>, me |-> FALSE, fwd |-> FALSE, price |-> FALSE, ai |-> FALSE,
   sent |-> <<>>, to |-> <<>>, err |-> "none"]

\* keys is the auth state useSupabaseAuthState holds for one tenant; the
\* lifecycle specification, which counts credential revisions in the socket
\* and the row, leaves it at NoKeys.
\* mem is the `keys` object of the closure, row the tenant's row in
\* whatsapp_sessions as the auth state sees it, saves the saveState calls the
\* store has not answered or whose caller has not resumed.
Slots == {<<"pre-key", "1">>, <<"pre-key", "2">>, <<"session", "1">>}
Vals == {"a", "b"}
ABSENT == "absent"

EmptyKeys == [k \in Slots |-> ABSENT]

NoAuthRow == [present |-> FALSE, set |-> FALSE, keys |-> EmptyKeys]

NoKeys == [mem |-> EmptyKeys, row |-> NoAuthRow, saves |-> <<>>]

Init ==
  /\ variant \in Variants
  /\ tenants = {"t1"}
  /\ sessions = [t \in TenantIds |-> NoSock]
  /\ socks = <<>>
  /\ db \in {[t \in TenantIds |-> IF t \in tenants THEN r ELSE FreshRow] :
              r \in {FreshRow, StaleRow, NoRow}}
  /\ tasks = EmptyBag
  /\ resp = NoResp
  /\ left = MaxEnv
  /\ keys = NoKeys
  /\ out = NoOut

\* ------------------------------------------------------ getOrCreateSession
\* The info object and the socket it holds are created together and never
\* separated: one record stands for both.  ts is the transport's own state:
\* "new" until it reports open, and once it has emitted close "loggedOut"
\* (statusCode = DisconnectReason.loggedOut) or "lost" (any other code); ver
\* is the revision of the in-memory creds.
NewSock(t, a) ==
  [t |-> t, status |-> "connecting", qr |-> NULL, ts |-> "new",
   ver |-> IF a = 0 THEN 1 ELSE a]

\* Whether the transport has emitted close on socket s.
Closed(s) == socks[s].ts \in {"lost", "loggedOut"}

\* A lookup that reuses an entry only once it is connected.
Existing_OnlyConnected(t) ==
  sessions[t] # NoSock /\ socks[sessions[t]].status = "connected"

\* `existing && existing.socket`: every info object holds its socket.
Existing(t) == sessions[t] # NoSock

\* The call up to its first await: past the registry check, waiting for the
\* dynamic imports and the stored auth_state.
GocsStart(t, s, c, e) == Task("gocs", t, s, "load", 0, <<>>, c, e)

\* useSupabaseAuthState / useMultiFileAuthState: the stored bundle is read.
Load(x) ==
  /\ UNCHANGED left
  /\ x \in Running
  /\ x.k = "gocs"
  /\ x.pc = "load"
  /\ tasks' = Add(Del(tasks, x), [x EXCEPT !.pc = "create", !.a = db[x.t].auth])
  /\ resp' = NoResp
  /\ UNCHANGED <<keys, out, variant, tenants, sessions, socks, db>>

\* What POST /connect answers when getOrCreateSession throws.
ConnectError(t) ==
  Reply("connect", t, 500, IF variant = "P" THEN KEEP ELSE "false", KEEP, KEEP, 0)

\* res.status(400).json({ error: "Bot no conectado." })
NotConnected(t) ==
  [Reply("send", t, 400, KEEP, KEEP, KEEP, 0) EXCEPT !.error = "Bot no conectado."]

\* res.status(400).json({ error: "Faltan datos" })
MissingData(t) ==
  [Reply("send", t, 400, KEEP, KEEP, KEEP, 0) EXCEPT !.error = "Faltan datos"]

\* A getOrCreateSession that calls itself again when makeWASocket throws.
Create_Retries(x, throws) ==
  /\ UNCHANGED left
  /\ x \in Running /\ x.k = "gocs" /\ x.pc = "create"
  /\ IF throws
     THEN /\ tasks' = Add(Del(tasks, x), [x EXCEPT !.pc = "load"])
          /\ UNCHANGED <<sessions, socks>>
          /\ resp' = NoResp
     ELSE /\ tasks' = Del(tasks, x)
          /\ socks' = Append(socks, NewSock(x.t, x.a))
          /\ sessions' = [sessions EXCEPT ![x.t] = Len(socks) + 1]
          /\ resp' = CASE x.c = "connect" -> Reply("connect", x.t, 200, "true", "connecting", NULL, 0)
                        [] x.c = "send" -> NotConnected(x.t)
                        [] OTHER -> NoResp
  /\ UNCHANGED <<keys, out, variant, tenants, db>>

\* makeWASocket, sessions.set, the listeners, return info; or makeWASocket
\* throws and the rejection reaches the caller.
Create(x, throws) ==
  /\ UNCHANGED left
  /\ x \in Running
  /\ x.k = "gocs"
  /\ x.pc = "create"
  /\ tasks' = Del(tasks, x)
  /\ IF throws
       THEN /\ UNCHANGED <<sessions, socks>>
            /\ resp' = CASE x.c = "connect" -> ConnectError(x.t)
                          [] x.c = "send" -> NotConnected(x.t)
                          [] OTHER -> NoResp
       ELSE /\ socks' = Append(socks, NewSock(x.t, x.a))
            /\ sessions' = [sessions EXCEPT ![x.t] = Len(socks) + 1]
            /\ resp' = CASE x.c = "connect" ->
                               Reply("connect", x.t, 200, "true", "connecting", NULL, 0)
                          [] x.c = "send" -> NotConnected(x.t)
                          [] OTHER -> NoResp
  /\ UNCHANGED <<keys, out, variant, tenants, db>>

\* POST /sessions/:tenantId/connect
Connect(t) ==
  /\ left > 0
  /\ left' = left - 1
  /\ IF Existing(t)
       THEN /\ resp' = Reply("connect", t, 200, "true",
                              socks[sessions[t]].status, socks[sessions[t]].qr, 0)
            /\ UNCHANGED tasks
       ELSE /\ tasks' = Add(tasks, GocsStart(t, NoSock, "connect", KEEP))
            /\ resp' = NoResp
  /\ UNCHANGED <<keys, out, variant, tenants, sessions, socks, db>>

\* A GET that goes through getOrCreateSession when the tenant has no entry.
GetSession_Ensures(t) ==
  /\ left > 0 /\ left' = left - 1
  /\ IF sessions[t] # NoSock
     THEN /\ resp' = Reply("get", t, 200, "true", socks[sessions[t]].status, socks[sessions[t]].qr, 0)
          /\ UNCHANGED tasks
     ELSE /\ tasks' = Add(tasks, GocsStart(t, NoSock, "get", KEEP))
          /\ resp' = NoResp
  /\ UNCHANGED <<keys, out, variant, tenants, sessions, socks, db>>

\* GET /sessions/:tenantId
GetSession(t) ==
  /\ left > 0
  /\ left' = left - 1
  /\ IF Existing(t)
       THEN /\ resp' = Reply("get", t, 200, "true",
                              socks[sessions[t]].status, socks[sessions[t]].qr, 0)
            /\ UNCHANGED tasks
       ELSE IF variant = "P"
         THEN /\ tasks' = Add(tasks, Task("get", t, NoSock, "read", 0, <<>>, "get", KEEP))
              /\ resp' = NoResp
         ELSE /\ resp' = Reply("get", t, 200, "true", "disconnected",
                                IF variant = "A" THEN KEEP ELSE NULL, 0)
              /\ UNCHANGED tasks
  /\ UNCHANGED <<keys, out, variant, tenants, sessions, socks, db>>

\* part_000 only: the row is read and answered.
GetRead(x) ==
  /\ UNCHANGED left
  /\ x \in Running
  /\ x.k = "get"
  /\ tasks' = Del(tasks, x)
  /\ resp' = Reply("get", x.t, 200, "true", ReadStatus(db[x.t]), ReadQr(db[x.t]), 0)
  /\ UNCHANGED <<keys, out, variant, tenants, sessions, socks, db>>

\* ------------------------------------------------------------ the store
\* The store applies the update a suspended handler waits for.  An event
\* handler has nothing left to do after its last update and ends with it; a
\* route handler still has to answer.
DbApply(x) ==
  /\ UNCHANGED left
  /\ x \in Running
  /\ x.ws # <<>>
  /\ db' = [db EXCEPT ![x.t] = ApplyWrite(db[x.t], Head(x.ws))]
  /\ tasks' = IF Len(x.ws) = 1 /\ x.k # "disc"
                THEN Del(tasks, x)
                ELSE Add(Del(tasks, x), [x EXCEPT !.ws = Tail(x.ws)])
  /\ resp' = NoResp
  /\ UNCHANGED <<keys, out, variant, tenants, sessions, socks>>

\* A handler with updates to issue, or none when it has none.
Spawn(b, k, t, s, ws) ==
  IF ws = <<>> THEN b ELSE Add(b, Task(k, t, s, "write", 0, ws, "event", KEEP))

\* ------------------------------------------- connection.update, creds.update
\* updateSessionDB (part_000), the direct update (A); B only prints the QR.
QrWrites(q) ==
  IF variant = "B" THEN <<>> ELSE <<W("qrcode", q, -1, -1)>>

\* updateSessionDB writes the row and then tenants.wa_connected;
\* markTenantWaStatus writes tenants first and (in A) the row's status after.
OpenWrites ==
  CASE variant = "P" -> <<W("connected", NULL, -1, -1), W(KEEP, KEEP, -1, 1)>>
    [] variant = "A" -> <<W(KEEP, KEEP, -1, 1), W("connected", KEEP, -1, -1)>>
    [] OTHER -> <<W(KEEP, KEEP, -1, 1)>>

\* The close handler's updates on a logout (B: on every close).
LogoutWrites ==
  CASE variant = "P" -> <<W("disconnected", NULL, 0, -1), W(KEEP, KEEP, -1, 0)>>
    [] variant = "A" -> <<W(KEEP, KEEP, -1, 0), W("disconnected", KEEP, -1, -1),
                          W("disconnected", KEEP, 0, -1)>>
    [] OTHER -> <<W(KEEP, KEEP, -1, 0)>>

\* A qr handler that sets the status and forgets to store the challenge.
EmitQr_StatusOnly(s, q) ==
  /\ left > 0 /\ left' = left - 1
  /\ s \in 1..Len(socks)
  /\ socks[s].ts = "new"
  /\ socks' = [socks EXCEPT ![s].status = "qrcode"]
  /\ tasks' = Spawn(tasks, "qr", socks[s].t, s, QrWrites(q))
  /\ resp' = NoResp
  /\ UNCHANGED <<keys, out, variant, tenants, sessions, db>>

\* if (qr) { info.status = "qrcode"; info.qr = qr; await update }
EmitQr(s, q) ==
  /\ left > 0
  /\ left' = left - 1
  /\ s \in 1..Len(socks)
  /\ socks[s].ts = "new"
  /\ socks' = [socks EXCEPT ![s].status = "qrcode", ![s].qr = q]
  /\ tasks' = Spawn(tasks, "qr", socks[s].t, s, QrWrites(q))
  /\ resp' = NoResp
  /\ UNCHANGED <<keys, out, variant, tenants, sessions, db>>

\* An open handler that does not clear the challenge.
EmitOpen_KeepsQr(s) ==
  /\ left > 0
  /\ left' = left - 1
  /\ s \in 1..Len(socks)
  /\ socks[s].ts = "new"
  /\ socks' = [socks EXCEPT ![s].status = "connected", ![s].ts = "open"]
  /\ tasks' = Spawn(tasks, "open", socks[s].t, s, OpenWrites)
  /\ resp' = NoResp
  /\ UNCHANGED <<keys, out, variant, tenants, sessions, db>>

\* if (connection === "open") { info.status = "connected"; info.qr = null; await update }
EmitOpen(s) ==
  /\ left > 0
  /\ left' = left - 1
  /\ s \in 1..Len(socks)
  /\ socks[s].ts = "new"
  /\ socks' = [socks EXCEPT ![s].status = "connected", ![s].qr = NULL, ![s].ts = "open"]
  /\ tasks' = Spawn(tasks, "open", socks[s].t, s, OpenWrites)
  /\ resp' = NoResp
  /\ UNCHANGED <<keys, out, variant, tenants, sessions, db>>

\* A close handler that never reconnects.
ShouldReconnect_Never(loggedOut) == FALSE

\* Whether the close handler calls getOrCreateSession again.
ShouldReconnect(loggedOut) == ~loggedOut

\* A close handler that empties the registry.
CloseSessions_ClearsAll(ss, s) == [t \in TenantIds |-> NoSock]

\* A close handler that leaves the registry as it is.
CloseSessions_Keeps(ss, s) == ss

\* The close handler up to its first await, on socket s of tenant t:
\* sessions.delete(tenantId) removes whatever entry the tenant has.
CloseSessions(ss, s) == [ss EXCEPT ![socks[s].t] = NoSock]

CloseSocks(sk, s, loggedOut) ==
  [sk EXCEPT ![s].ts = IF loggedOut THEN "loggedOut" ELSE "lost",
             ![s].status = IF variant = "B" THEN "disconnected" ELSE @]

CloseTasks(b, s, loggedOut) ==
  IF variant # "B" /\ ShouldReconnect(loggedOut)
  THEN Add(b, GocsStart(socks[s].t, NoSock, "reconnect", KEEP))
  ELSE Spawn(b, "close", socks[s].t, s, LogoutWrites)

EmitClose(s, loggedOut) ==
  /\ left > 0
  /\ left' = left - 1
  /\ s \in 1..Len(socks)
  /\ ~Closed(s)
  /\ socks' = CloseSocks(socks, s, loggedOut)
  /\ sessions' = CloseSessions(sessions, s)
  /\ tasks' = CloseTasks(tasks, s, loggedOut)
  /\ resp' = NoResp
  /\ UNCHANGED <<keys, out, variant, tenants, db>>

\* The transport changes the creds in place and emits creds.update:
\* saveState serializes the bundle as it is now and updates auth_state.
EmitCreds(s) ==
  /\ left > 0
  /\ left' = left - 1
  /\ s \in 1..Len(socks)
  /\ ~Closed(s)
  /\ socks' = [socks EXCEPT ![s].ver = @ + 1]
  /\ tasks' = Spawn(tasks, "save", socks[s].t, s, <<W(KEEP, KEEP, socks[s].ver + 1, -1)>>)
  /\ resp' = NoResp
  /\ UNCHANGED <<keys, out, variant, tenants, sessions, db>>

\* A disconnect route that clears the credentials and the challenge but
\* leaves the status column as it was.
DisconnectWrites_KeepStatus ==
  CASE variant = "B" -> <<W(KEEP, KEEP, -1, 0)>>
    [] OTHER -> <<W(KEEP, NULL, 0, -1)>>

\* ------------------------------------------------------------- disconnect
DisconnectWrites ==
  CASE variant = "P" -> <<W("disconnected", NULL, 0, -1), W(KEEP, KEEP, -1, 0)>>
    [] variant = "A" -> <<W("disconnected", NULL, 0, -1)>>
    [] OTHER -> <<W(KEEP, KEEP, -1, 0)>>

\* res.json({ ok: true }) in part_000, with status: "disconnected" in the
\* others; s records the socket the route had found in the registry.
DisconnectReply(t, s) ==
  Reply("disconnect", t, 200, "true", IF variant = "P" THEN KEEP ELSE "disconnected", KEEP, s)

\* POST /sessions/:tenantId/disconnect, up to its first await.
Disconnect(t) ==
  /\ left > 0
  /\ left' = left - 1
  /\ IF Existing(t)
       THEN /\ tasks' = Add(tasks, Task("disc", t, sessions[t], "logout", 0, <<>>, "disconnect", KEEP))
            /\ resp' = NoResp
       ELSE IF variant = "B"
         THEN /\ resp' = DisconnectReply(t, NoSock)
              /\ UNCHANGED tasks
         ELSE /\ tasks' = Add(tasks, Task("disc", t, NoSock, "write", 0, DisconnectWrites, "disconnect", KEEP))
              /\ resp' = NoResp
  /\ UNCHANGED <<keys, out, variant, tenants, sessions, socks, db>>

\* Whether the route itself removes the entry after logout: A only when
\* logout threw.
RouteDeletes(ok) == variant # "A" \/ ~ok

\* socket.logout() settles.  When it succeeds on a socket that has not
\* closed, the transport ends the connection with the logged-out code first
\* (wa-server.js:296), so the close handler runs before the route goes on.
LogoutResolve(x, ok) ==
  /\ UNCHANGED left
  /\ x \in Running
  /\ x.k = "disc"
  /\ x.pc = "logout"
  /\ LET closes == ok /\ ~Closed(x.s)
          ss == IF closes THEN CloseSessions(sessions, x.s) ELSE sessions
          tk == IF closes THEN CloseTasks(Del(tasks, x), x.s, TRUE) ELSE Del(tasks, x)
     IN /\ socks' = IF closes THEN CloseSocks(socks, x.s, TRUE) ELSE socks
        /\ sessions' = IF RouteDeletes(ok) THEN [ss EXCEPT ![x.t] = NoSock] ELSE ss
        /\ tasks' = Add(tk, [x EXCEPT !.pc = "write", !.ws = DisconnectWrites])
  /\ resp' = NoResp
  /\ UNCHANGED <<keys, out, variant, tenants, db>>

\* res.json(...) of the disconnect route, after its updates.
DisconnectDone(x) ==
  /\ UNCHANGED left
  /\ x \in Running
  /\ x.k = "disc"
  /\ x.pc = "write"
  /\ x.ws = <<>>
  /\ tasks' = Del(tasks, x)
  /\ resp' = DisconnectReply(x.t, x.s)
  /\ UNCHANGED <<keys, out, variant, tenants, sessions, socks, db>>

\* ---------------------------------------------------------- send-template
\* A route that makes sure of the session before it validates the body.
SendTemplate_EnsuresFirst(t, e, hasPhone) ==
  /\ variant = "P"
  /\ left > 0
  /\ left' = left - 1
  /\ IF sessions[t] = NoSock
       THEN /\ tasks' = Add(tasks, GocsStart(t, NoSock, "send", e))
            /\ resp' = NoResp
       ELSE /\ resp' = NotConnected(t)
            /\ UNCHANGED tasks
  /\ UNCHANGED <<keys, out, variant, tenants, sessions, socks, db>>

\* POST /sessions/:tenantId/send-template exists in part_000 only.  e is the
\* body's event (NULL when missing), hasPhone whether it names a phone.
SendTemplate(t, e, hasPhone) ==
  /\ variant = "P"
  /\ left > 0
  /\ left' = left - 1
  /\ IF e = NULL \/ ~hasPhone
       THEN /\ resp' = MissingData(t)
            /\ UNCHANGED tasks
       ELSE IF Existing(t) /\ socks[sessions[t]].status = "connected"
         THEN /\ tasks' = Add(tasks, Task("send", t, sessions[t], "tpl", 0, <<>>, "send", e))
              /\ resp' = NoResp
         ELSE IF Existing(t)
           THEN /\ resp' = NotConnected(t)
                /\ UNCHANGED tasks
           ELSE /\ tasks' = Add(tasks, GocsStart(t, NoSock, "send", e))
                /\ resp' = NoResp
  /\ UNCHANGED <<keys, out, variant, tenants, sessions, socks, db>>

\* A route that sends as soon as the session is connected and never looks the
\* template up.
SendTpl_SendsBlind(x, sendOk) ==
  /\ UNCHANGED left
  /\ x \in Running
  /\ x.k = "send"
  /\ tasks' = Del(tasks, x)
  /\ resp' = IF sendOk /\ ~Closed(x.s)
               THEN Reply("send", x.t, 200, "true", KEEP, KEEP, x.s)
               ELSE Reply("send", x.t, 500, KEEP, KEEP, KEEP, 0)
  /\ UNCHANGED <<keys, out, variant, tenants, sessions, socks, db>>

\* getTemplate has answered: 404 without a template, else the message goes
\* out over the socket the route captured; a closed socket throws.
SendTpl(x, sendOk) ==
  /\ UNCHANGED left
  /\ x \in Running
  /\ x.k = "send"
  /\ tasks' = Del(tasks, x)
  /\ resp' = IF ~HasTemplate(x.t, x.e) THEN Reply("send", x.t, 404, KEEP, KEEP, KEEP, 0)
             ELSE IF sendOk /\ ~Closed(x.s)
               THEN Reply("send", x.t, 200, "true", KEEP, KEEP, x.s)
               ELSE Reply("send", x.t, 500, KEEP, KEEP, KEEP, 0)
  /\ UNCHANGED <<keys, out, variant, tenants, sessions, socks, db>>

Next ==
  \/ \E t \in tenants : Connect(t)
  \/ \E t \in tenants : GetSession(t)
  \/ \E x \in Running : Load(x)
  \/ \E x \in Running, throws \in BOOLEAN : Create(x, throws)
  \/ \E x \in Running : GetRead(x)
  \/ \E x \in Running : DbApply(x)
  \/ \E s \in 1..Len(socks), q \in QRs : EmitQr(s, q)
  \/ \E s \in 1..Len(socks) : EmitOpen(s)
  \/ \E s \in 1..Len(socks), loggedOut \in BOOLEAN : EmitClose(s, loggedOut)
  \/ \E s \in 1..Len(socks) : EmitCreds(s)
  \/ \E t \in tenants : Disconnect(t)
  \/ \E x \in Running, ok \in BOOLEAN : LogoutResolve(x, ok)
  \/ \E x \in Running : DisconnectDone(x)
  \/ \E t \in tenants, e \in Events \cup {NULL}, hasPhone \in BOOLEAN : SendTemplate(t, e, hasPhone)
  \/ \E x \in Running, sendOk \in BOOLEAN : SendTpl(x, sendOk)

Spec == Init /\ [][Next]_vars

\* ------------------------------------------------------ inbound messages
\* How many messages.upsert events the transport emits in a run.
MaxMsgs == 2

\* A remoteJid is its user part followed by its server part; <<>> is a key
\* without remoteJid.
UserJid == <<"18095550100", "@s.whatsapp.net">>
GroupJid == <<"120363020", "@g.us">>
StatusJid == <<"status", "@broadcast">>
Jids == {UserJid, GroupJid, StatusJid, <<>>}

\* A text is its characters; <<>> is a message without conversation or
\* extendedTextMessage.text.
Texts ==
  {<<"p", "r", "e", "c", "i", "o">>,
   <<"P", "R", "E", "C", "I", "O">>,
   <<"e", "l", " ", "C", "o", "s", "t", "o", "?">>,
   <<"c", "u", "a", "n", "t", "o", " ", "v", "a", "l", "e">>,
   <<"C", "u", "á", "n", "t", "o", " ", "v", "a", "l", "e">>,
   <<"p", "l", "a", "n", "e", "s">>,
   <<"T", "a", "r", "i", "f", "a">>,
   <<" ", "h", "o", "l", "a", " ">>,
   <<"p", "r", "e", "c", "i">>,
   <<" ">>,
   <<>>}

\* const priceKeywords = ["precio", "costo", "cuanto vale", "planes", "tarifa"]
PriceKeywords ==
  {<<"p", "r", "e", "c", "i", "o">>,
   <<"c", "o", "s", "t", "o">>,
   <<"c", "u", "a", "n", "t", "o", " ", "v", "a", "l", "e">>,
   <<"p", "l", "a", "n", "e", "s">>,
   <<"t", "a", "r", "i", "f", "a">>}

\* String.prototype.toLowerCase, on the letters the texts use.
LowerChar(c) ==
  CASE c = "C" -> "c"
    [] c = "E" -> "e"
    [] c = "I" -> "i"
    [] c = "O" -> "o"
    [] c = "P" -> "p"
    [] c = "R" -> "r"
    [] c = "T" -> "t"
    [] OTHER -> c

ToLowerCase(txt) == [i \in 1..Len(txt) |-> LowerChar(txt[i])]

\* String.prototype.trim
RECURSIVE TrimStart(_)
TrimStart(txt) == IF txt # <<>> /\ Head(txt) = " " THEN TrimStart(Tail(txt)) ELSE txt

RECURSIVE TrimEnd(_)
TrimEnd(txt) ==
  IF txt # <<>> /\ txt[Len(txt)] = " " THEN TrimEnd(SubSeq(txt, 1, Len(txt) - 1)) ELSE txt

Trim(txt) == TrimEnd(TrimStart(txt))

\* String.prototype.includes
Includes(txt, part) ==
  \E i \in 1..(Len(txt) - Len(part) + 1) : SubSeq(txt, i, i + Len(part) - 1) = part

\* String.prototype.endsWith
EndsWith(txt, part) ==
  Len(txt) >= Len(part) /\ SubSeq(txt, Len(txt) - Len(part) + 1, Len(txt)) = part

\* A keyword test that forgets toLowerCase.
IsPriceQuestion_CaseSensitive(txt) == \E kw \in PriceKeywords : Includes(Trim(txt), kw)

\* generateReply: priceKeywords.some((kw) => lower.includes(kw)) on the
\* trimmed, lower-cased text.
IsPriceQuestion(txt) == \E kw \in PriceKeywords : Includes(ToLowerCase(Trim(txt)), kw)

\* A template body is its pieces, a piece being literal text or a {{key}}.
Lit(s) == [var |-> FALSE, s |-> s]
Var(s) == [var |-> TRUE, s |-> s]

\* The body of the tenant's active template for an event.
TemplateBody(t, e) ==
  IF e = "pricing_pitch"
  THEN <<Lit("Hola "), Var("nombre"), Lit("nuestros planes empiezan en RD$500")>>
  ELSE <<Lit("Tu cita fue confirmada")>>

\* renderTemplate(body, {}): every {{key}} becomes "".
RECURSIVE RenderTemplate(_)
RenderTemplate(body) ==
  IF body = <<>> THEN <<>>
  ELSE IF Head(body).var THEN RenderTemplate(Tail(body))
  ELSE <<Head(body).s>> \o RenderTemplate(Tail(body))

\* What the AI backend answers, and what buildAiReply puts for an answer
\* without content.
AiText == <<"respuesta de la IA">>
AiDefault == <<"Hola, cuéntame más.">>

Messages == [has : BOOLEAN, fromMe : BOOLEAN, jid : Jids, text : Texts]

\* A suspended messages.upsert handler: beside the fields of every task, the
\* remoteJid it answers to, whether generateReply found a pricing keyword,
\* and the reply once there is one.
MsgTask(t, s, pc, jid, price, reply) ==
  [jid |-> jid, price |-> price, reply |-> reply]
  @@ Task("msg", t, s, pc, 0, <<>>, "event", KEEP)

\* A handler that filters nothing but what it cannot answer.
Verdict_GroupsPass(m) ==
  IF ~m.has \/ m.jid = <<>> \/ Trim(m.text) = <<>> THEN "drop" ELSE "pass"

\* The handler's way through its filters: "drop" is a return before the
\* reply engine, "throw" a TypeError, "pass" a text handed to the engine.
Verdict(m) ==
  CASE variant = "P" ->
         IF ~m.has \/ m.fromMe THEN "drop"
         ELSE IF m.jid = <<>> THEN "throw"
         ELSE IF Includes(m.jid, <<"@g.us">>) THEN "drop"
         ELSE IF m.text = <<>> THEN "drop"
         ELSE "pass"
    [] variant = "A" ->
         IF ~m.has \/ m.fromMe THEN "drop"
         ELSE IF m.jid = <<>> \/ Includes(m.jid, <<"@g.us">>) THEN "drop"
         ELSE IF Trim(m.text) = <<>> THEN "drop"
         ELSE "pass"
    [] OTHER ->
         IF ~m.has THEN "drop"
         ELSE IF m.jid = <<>> THEN "drop"
         ELSE IF EndsWith(m.jid, <<"@status">>) THEN "drop"
         ELSE IF EndsWith(m.jid, <<"@g.us">>) THEN "drop"
         ELSE IF m.fromMe THEN "drop"
         ELSE IF Trim(m.text) = <<>> THEN "drop"
         ELSE "pass"

\* Where an error thrown inside the handler ends: part_000 has no try/catch
\* around its handler, both versions of wa-server.js catch and log.
Thrown == IF variant = "P" THEN "escaped" ELSE "caught"

\* Where the engine first waits: part_000 on getTemplate for a pricing
\* question and on getTenantContext otherwise, wa-server.js on the AI call
\* buildAiReply has just made.
FirstAwait(txt) ==
  IF variant # "P" THEN "ai" ELSE IF IsPriceQuestion(txt) THEN "tpl" ELSE "ctx"

\* sock.ev.on("messages.upsert", ...) up to its first await, for the message
\* m on socket s.
Upsert(s, m) ==
  /\ left > 0
  /\ left' = left - 1
  /\ s \in 1..Len(socks)
  /\ ~Closed(s)
  /\ LET v == Verdict(m)
         price == v = "pass" /\ variant = "P" /\ IsPriceQuestion(m.text)
     IN /\ out' = [NoOut EXCEPT !.s = s, !.from = m.jid, !.me = m.fromMe,
                                 !.fwd = (v = "pass"),
                                 !.price = price,
                                 !.ai = (v = "pass" /\ variant # "P"),
                                 !.err = IF v = "throw" THEN Thrown ELSE "none"]
        /\ tasks' = IF v = "pass"
                     THEN Add(tasks, MsgTask(socks[s].t, s, FirstAwait(m.text), m.jid, price, <<>>))
                     ELSE tasks
  /\ UNCHANGED <<keys, variant, tenants, sessions, socks, db, resp>>

\* A handler that calls sock.sendMessage with whatever the engine returned.
WithReply_SendsAnything(x, reply) ==
  Add(Del(tasks, x), [x EXCEPT !.pc = "send", !.reply = reply])

\* The handler goes on with the engine's reply: `if (reply)` it calls
\* sock.sendMessage and waits for it, else it is done.
WithReply(x, reply) ==
  IF reply # <<>>
  THEN Add(Del(tasks, x), [x EXCEPT !.pc = "send", !.reply = reply])
  ELSE Del(tasks, x)

\* getTemplate(tenantId, "pricing_pitch") has answered: the body, or null
\* when the query failed or the tenant has no active template.
TplAnswer(x, fails) ==
  /\ x \in Running
  /\ x.k = "msg"
  /\ x.pc = "tpl"
  /\ IF ~fails /\ HasTemplate(x.t, "pricing_pitch")
       THEN tasks' = WithReply(x, RenderTemplate(TemplateBody(x.t, "pricing_pitch")))
       ELSE tasks' = Add(Del(tasks, x), [x EXCEPT !.pc = "ctx"])
  /\ out' = [NoOut EXCEPT !.s = x.s, !.from = x.jid, !.price = x.price]
  /\ UNCHANGED <<keys, variant, tenants, sessions, socks, db, resp, left>>

\* getTenantContext has answered (it never throws): the engine calls the AI.
CtxAnswer(x) ==
  /\ x \in Running
  /\ x.k = "msg"
  /\ x.pc = "ctx"
  /\ tasks' = Add(Del(tasks, x), [x EXCEPT !.pc = "ai"])
  /\ out' = [NoOut EXCEPT !.s = x.s, !.from = x.jid, !.price = x.price, !.ai = TRUE]
  /\ UNCHANGED <<keys, variant, tenants, sessions, socks, db, resp, left>>

\* What the engine returns for the AI's answer: its text; for an answer
\* without content undefined in part_000 and the default in wa-server.js;
\* null when the call threw.
AiReply(res) ==
  CASE res = "text" -> AiText
    [] res = "blank" -> IF variant = "P" THEN <<>> ELSE AiDefault
    [] OTHER -> <<>>

AiAnswer(x, res) ==
  /\ x \in Running
  /\ x.k = "msg"
  /\ x.pc = "ai"
  /\ tasks' = WithReply(x, AiReply(res))
  /\ out' = [NoOut EXCEPT !.s = x.s, !.from = x.jid, !.price = x.price]
  /\ UNCHANGED <<keys, variant, tenants, sessions, socks, db, resp, left>>

\* sock.sendMessage(remoteJid, { text: reply }) has resolved or thrown.
SendDone(x, sendOk) ==
  /\ x \in Running
  /\ x.k = "msg"
  /\ x.pc = "send"
  /\ tasks' = Del(tasks, x)
  /\ out' = IF sendOk /\ ~Closed(x.s)
             THEN [NoOut EXCEPT !.s = x.s, !.from = x.jid, !.price = x.price,
                                !.sent = x.reply, !.to = x.jid]
             ELSE [NoOut EXCEPT !.s = x.s, !.from = x.jid, !.price = x.price,
                                !.err = Thrown]
  /\ UNCHANGED <<keys, variant, tenants, sessions, socks, db, resp, left>>

RECURSIVE ApplyAll(_, _)
ApplyAll(row, ws) == IF ws = <<>> THEN row ELSE ApplyAll(ApplyWrite(row, Head(ws)), Tail(ws))

\* The tenant is connected: its socket has opened and the open handler's
\* updates have been applied.
MsgInit ==
  /\ variant \in Variants
  /\ tenants = {"t1"}
  /\ socks = <<[NewSock("t1", 0) EXCEPT !.status = "connected", !.ts = "open"]>>
  /\ sessions = [t \in TenantIds |-> IF t = "t1" THEN 1 ELSE NoSock]
  /\ db = [t \in TenantIds |-> IF t = "t1" THEN ApplyAll(FreshRow, OpenWrites) ELSE FreshRow]
  /\ tasks = EmptyBag
  /\ resp = NoResp
  /\ keys = NoKeys
  /\ out = NoOut
  /\ left = MaxMsgs

MsgNext ==
  \/ \E s \in 1..Len(socks), m \in Messages : Upsert(s, m)
  \/ \E x \in Running, fails \in BOOLEAN : TplAnswer(x, fails)
  \/ \E x \in Running : CtxAnswer(x)
  \/ \E x \in Running, res \in {"text", "blank", "error"} : AiAnswer(x, res)
  \/ \E x \in Running, sendOk \in BOOLEAN : SendDone(x, sendOk)

MsgSpec == MsgInit /\ [][MsgNext]_vars

\* -------------------------------------------------- useSupabaseAuthState
\* How many keys.set calls the transport makes in a run.
MaxSets == 2

\* JSON.parse(JSON.stringify(x, BufferJSON.replacer)): a key's bytes become a
\* tagged object; a slot that is not there stays out.
Replacer(v) ==
  CASE v = "a" -> "{Buffer:a}"
    [] v = "b" -> "{Buffer:b}"
    [] OTHER -> ABSENT

\* JSON.parse(..., BufferJSON.reviver): the tagged object becomes bytes again.
Reviver(j) ==
  CASE j = "{Buffer:a}" -> "a"
    [] j = "{Buffer:b}" -> "b"
    [] OTHER -> ABSENT

Serialize(ks) == [k \in Slots |-> Replacer(ks[k])]

Revive(js) == [k \in Slots |-> Reviver(js[k])]

\* The `data` of a keys.set call: a value for some slots, ABSENT for the
\* slots it does not name.
Updates == [Slots -> Vals \cup {ABSENT}] \ {EmptyKeys}

\* for (category in data) for (id in data[category]) keys[category][id] = value
MergeKeys(old, data) == [k \in Slots |-> IF data[k] # ABSENT THEN data[k] ELSE old[k]]

\* useSupabaseAuthState: keys start as the stored ones, {} without a row or
\* with auth_state null.
LoadKeys(row) == IF row.present /\ row.set THEN Revive(row.keys) ELSE EmptyKeys

AuthRows ==
  {NoAuthRow, [present |-> TRUE, set |-> FALSE, keys |-> EmptyKeys]}
  \cup {[present |-> TRUE, set |-> TRUE, keys |-> Serialize([EmptyKeys EXCEPT ![k] = "a"])] :
          k \in Slots}

AuthInit ==
  /\ variant \in {"P", "A"}
  /\ tenants = {"t1"}
  /\ socks = <<NewSock("t1", 0)>>
  /\ sessions = [t \in TenantIds |-> IF t = "t1" THEN 1 ELSE NoSock]
  /\ db = [t \in TenantIds |-> FreshRow]
  /\ tasks = EmptyBag
  /\ resp = NoResp
  /\ out = NoOut
  /\ left = MaxSets
  /\ \E row \in AuthRows : keys = [mem |-> LoadKeys(row), row |-> row, saves |-> <<>>]

\* state.keys.set(data) up to the await inside saveState: the merge, the
\* snapshot saveState serializes, and the update it sends.
KeysSet(data) ==
  /\ left > 0
  /\ left' = left - 1
  /\ LET merged == MergeKeys(keys.mem, data)
     IN keys' = [keys EXCEPT !.mem = merged,
                             !.saves = Append(@, [snap |-> Serialize(merged), st |-> "sent"])]
  /\ out' = NoOut
  /\ UNCHANGED <<variant, tenants, sessions, socks, db, tasks, resp>>

\* The store answers a saveState update: an error, which saveState logs, or
\* success, which without a row for the tenant has matched nothing.
SaveLands(i, fails) ==
  /\ i \in 1..Len(keys.saves)
  /\ keys.saves[i].st = "sent"
  /\ keys' = [keys EXCEPT
                !.row = IF fails \/ ~keys.row.present THEN @
                        ELSE [@ EXCEPT !.set = TRUE, !.keys = keys.saves[i].snap],
                !.saves[i].st = IF fails THEN "failed"
                                ELSE IF keys.row.present THEN "written" ELSE "unmatched"]
  /\ out' = NoOut
  /\ UNCHANGED <<variant, tenants, sessions, socks, db, tasks, resp, left>>

Without(seq, i) == SubSeq(seq, 1, i - 1) \o SubSeq(seq, i + 1, Len(seq))

\* `await saveState()` resumes and keys.set returns to the transport.
SetReturns(i) ==
  /\ i \in 1..Len(keys.saves)
  /\ keys.saves[i].st # "sent"
  /\ keys' = [keys EXCEPT !.saves = Without(@, i)]
  /\ out' = NoOut
  /\ UNCHANGED <<variant, tenants, sessions, socks, db, tasks, resp, left>>

AuthNext ==
  \/ \E data \in Updates : KeysSet(data)
  \/ \E i \in 1..Len(keys.saves), fails \in BOOLEAN : SaveLands(i, fails)
  \/ \E i \in 1..Len(keys.saves) : SetReturns(i)

AuthSpec == AuthInit /\ [][AuthNext]_vars

\* ----------------------------------------- connection.update, part by part
\* How many connection.update events the transport emits in a run.
MaxUpd == 3

\* A connection.update carries a qr (NULL when it has none) and a connection
\* (KEEP when it has none; "lost" and "loggedOut" are "close" with and without
\* another status code than DisconnectReason.loggedOut), not neither.
ConnUpdates ==
  {u \in [qr : QRs \cup {NULL}, connection : {KEEP, "open", "lost", "loggedOut"}] :
     u.qr # NULL \/ u.connection # KEEP}

\* The handler from `if (connection === "open")` on, socks being sk and the
\* suspended handlers b: the open part or the close part up to its await.
ConnPart(sk, b, s, conn) ==
  CASE conn = "open" ->
         /\ socks' = [sk EXCEPT ![s].status = "connected", ![s].qr = NULL, ![s].ts = "open"]
         /\ sessions' = sessions
         /\ tasks' = Spawn(b, "open", sk[s].t, s, OpenWrites)
    [] conn \in {"lost", "loggedOut"} ->
         /\ socks' = CloseSocks(sk, s, conn = "loggedOut")
         /\ sessions' = CloseSessions(sessions, s)
         /\ tasks' = CloseTasks(b, s, conn = "loggedOut")
    [] OTHER ->
         /\ socks' = sk
         /\ sessions' = sessions
         /\ tasks' = b

\* A handler is suspended in its qr part with a connection part to come.
MidUpdate(s) == \E y \in Running : y.k = "upd" /\ y.s = s /\ y.e # KEEP

\* sock.ev.on("connection.update", ...) for the update u on socket s, up to
\* its first await: the qr part, and when that part waits for no update the
\* connection part after it.
ConnectionUpdate(s, u) ==
  /\ left > 0
  /\ left' = left - 1
  /\ s \in 1..Len(socks)
  /\ ~Closed(s)
  /\ ~MidUpdate(s)
  /\ (u.qr # NULL \/ u.connection = "open") => socks[s].ts = "new"
  /\ LET sk == IF u.qr = NULL THEN socks
               ELSE [socks EXCEPT ![s].status = "qrcode", ![s].qr = u.qr]
     IN IF u.qr # NULL /\ QrWrites(u.qr) # <<>>
          THEN /\ socks' = sk
               /\ sessions' = sessions
               /\ tasks' = Add(tasks, Task("upd", socks[s].t, s, "qr", 0, QrWrites(u.qr),
                                            "event", u.connection))
          ELSE ConnPart(sk, tasks, s, u.connection)
  /\ resp' = NoResp
  /\ UNCHANGED <<keys, out, variant, tenants, db>>

\* A handler that gives up its other updates when one has failed.
Remaining_StopsOnError(x, fails) == IF fails THEN <<>> ELSE Tail(x.ws)

\* The updates a handler still has to send once the store has answered the
\* one it waits for: nothing looks at the answer's error.
Remaining(x, fails) == Tail(x.ws)

\* The store answers the update a handler waits for, with an error (the row
\* stays as it is) or without; the handler goes on with its next update, and
\* after the last one of the qr part with the update's connection part.
UpdateAnswered(x, fails) ==
  /\ UNCHANGED left
  /\ x \in Running
  /\ x.ws # <<>>
  /\ db' = IF fails THEN db ELSE [db EXCEPT ![x.t] = ApplyWrite(db[x.t], Head(x.ws))]
  /\ IF Remaining(x, fails) # <<>>
       THEN /\ tasks' = Add(Del(tasks, x), [x EXCEPT !.ws = Remaining(x, fails)])
            /\ UNCHANGED <<sessions, socks>>
       ELSE ConnPart(socks, Del(tasks, x), x.s, x.e)
  /\ resp' = NoResp
  /\ UNCHANGED <<keys, out, variant, tenants>>

\* A connection has just been made for the tenant.
StoreInit ==
  /\ variant \in Variants
  /\ tenants = {"t1"}
  /\ socks = <<NewSock("t1", 0)>>
  /\ sessions = [t \in TenantIds |-> IF t = "t1" THEN 1 ELSE NoSock]
  /\ db = [t \in TenantIds |-> FreshRow]
  /\ tasks = EmptyBag
  /\ resp = NoResp
  /\ keys = NoKeys
  /\ out = NoOut
  /\ left = MaxUpd

StoreNext ==
  \/ \E s \in 1..Len(socks), u \in ConnUpdates : ConnectionUpdate(s, u)
  \/ \E x \in Running, fails \in BOOLEAN : UpdateAnswered(x, fails)
  \/ \E x \in Running : Load(x)
  \/ \E x \in Running, throws \in BOOLEAN : Create(x, throws)

StoreSpec == StoreInit /\ [][StoreNext]_vars

\* ------------------------------------------------------------ two tenants
\* How many requests and transport events of both tenants together the
\* environment issues in a run.
MaxTwo == 4

\* The server with requests coming in for two tenants, each with its row.
TwoInit ==
  /\ variant \in Variants
  /\ tenants = TenantIds
  /\ sessions = [t \in TenantIds |-> NoSock]
  /\ socks = <<>>
  /\ db = [t \in TenantIds |-> FreshRow]
  /\ tasks = EmptyBag
  /\ resp = NoResp
  /\ left = MaxTwo
  /\ keys = NoKeys
  /\ out = NoOut

TwoSpec == TwoInit /\ [][Next]_vars

\* ----------------------------------------------------------------- claims
\* The connections of tenant t on which the transport has not emitted close.
Live(t) == {i \in 1..Len(socks) : socks[i].t = t /\ ~Closed(i)}

\* The step constructs a transport connection.
Constructs == Len(socks') = Len(socks) + 1

\* C1: of two getOrCreateSession calls for a tenant without a registry entry,
\* the second started before the first inserted its entry, only one constructs
\* a connection: no connection is constructed for a tenant that has an entry.
C1_OneConnectionPerRace ==
  [][variant = "P" /\ Constructs => sessions[socks'[Len(socks')].t] = NoSock]_vars

\* C2: no tenant ever has two connections that are live at the same time.
C2_AtMostOneLive ==
  variant = "P" => \A t \in TenantIds : Cardinality(Live(t)) <= 1

\* The transport emits a close with a code other than loggedOut on socket s.
LostNow(s) == ~Closed(s) /\ socks'[s].ts = "lost"

\* The close handler's own call of getOrCreateSession, past its check.
Reconnecting(t) == GocsStart(t, NoSock, "reconnect", KEEP)

\* Task x leaves the step's bag of suspended handlers.
Ends(x) == CopiesIn(x, tasks') < CopiesIn(x, tasks)

Closing(s) == \E x \in Running : x.k = "close" /\ x.s = s

\* C4: once the handler of a logged-out close has finished, and no
\* getOrCreateSession call came after that connection, the tenant has no
\* registry entry and the persisted auth_state is empty (part_000 and the
\* Supabase wa-server.js, the versions that clear it).
C4_LogoutLeavesNothing ==
  \A s \in 1..Len(socks) :
    ( /\ variant \in {"P", "A"}
      /\ socks[s].ts = "loggedOut"
      /\ s = Len(socks)
      /\ Creating(socks[s].t) = {}
      /\ ~Closing(s) )
    => sessions[socks[s].t] = NoSock /\ db[socks[s].t].auth = 0

\* C5: when disconnect answers for a tenant it found connected, the entry
\* is gone and the row says disconnected, without credentials or challenge.
C5_DisconnectCleans ==
  ( /\ resp.route = "disconnect"
    /\ resp.s # NoSock
    /\ variant \in {"P", "A"} )
  => /\ sessions[resp.t] = NoSock
     /\ ReadStatus(db[resp.t]) = "disconnected"
     /\ db[resp.t].auth = 0
     /\ db[resp.t].qr = NULL


\* What the version in use persists as the tenant's status: the row's status
\* column, and in the older wa-server.js, which never writes the row, the
\* tenants.wa_connected flag.
PersistedDisconnected(t) ==
  IF variant = "B" THEN db[t].wa = 0 ELSE ReadStatus(db[t]) = "disconnected"

C7_EnsureIdempotent ==
  [][\A t \in tenants :
       ( /\ sessions[t] # NoSock
         /\ socks[sessions[t]].status \in {"connecting", "qrcode", "connected"} )
       => /\ Connect(t) =>
               /\ UNCHANGED <<sessions, socks, tasks, db>>
               /\ resp' = Reply("connect", t, 200, "true",
                                socks[sessions[t]].status, socks[sessions[t]].qr, 0)
          /\ \A e \in Events :
               (SendTemplate(t, e, TRUE) /\ socks[sessions[t]].status # "connected")
               => UNCHANGED <<sessions, socks, tasks, db>>]_vars

\* C7 witness: POST /connect answered from an entry that waits for its scan.
C7_Witness ==
  /\ resp.route = "connect"
  /\ resp.status = "qrcode"
  /\ sessions[resp.t] # NoSock
  /\ socks[sessions[resp.t]].qr \in QRs

\* C8 as claimed: when makeWASocket throws, POST /connect answers 500 with
\* ok: false, no entry is inserted and nothing is retried.
C8_Original ==
  [][\A x \in Running : (Create(x, TRUE) /\ x.c = "connect") =>
        /\ resp'.code = 500
        /\ resp'.ok = "false"
        /\ UNCHANGED <<sessions, socks>>
        /\ tasks' = Del(tasks, x)]_vars

\* C8 amended: when makeWASocket throws, POST /connect answers 500, with
\* ok: false in both wa-server.js versions and with a body that has no ok
\* field in part_000; no entry is inserted and the call is not retried.
C8_CreationErrorSurfaced ==
  [][\A x \in Running : Create(x, TRUE) =>
        /\ UNCHANGED <<sessions, socks>>
        /\ tasks' = Del(tasks, x)
        /\ x.c = "connect" =>
             /\ resp'.route = "connect"
             /\ resp'.code = 500
             /\ resp'.ok = IF variant = "P" THEN KEEP ELSE "false"]_vars

\* C8 witness: a 500 to POST /connect with the tenant still absent.
C8_Witness ==
  /\ resp.route = "connect"
  /\ resp.code = 500
  /\ sessions[resp.t] = NoSock
  /\ Creating(resp.t) = {}

\* No getOrCreateSession call starts in the step.
StartsNoCall == \A y \in BagToSet(tasks') : y.k = "gocs" => CopiesIn(y, tasks') <= CopiesIn(y, tasks)

\* What GET answers from the entry of tenant t.
FromMemory(t) ==
  Reply("get", t, 200, "true", socks[sessions[t]].status, socks[sessions[t]].qr, 0)

\* C9 as claimed: GET creates nothing and leaves the registry alone; it
\* answers the entry's status and challenge, and without an entry the
\* persisted ones.
C9_Original ==
  [][/\ \A t \in tenants : GetSession(t) =>
          /\ UNCHANGED <<sessions, socks, db>>
          /\ StartsNoCall
          /\ sessions[t] # NoSock => resp' = FromMemory(t)
          /\ (sessions[t] = NoSock /\ variant # "P") =>
               /\ resp'.status = ReadStatus(db[t])
               /\ resp'.qr = ReadQr(db[t])
     /\ \A x \in Running : GetRead(x) =>
          /\ UNCHANGED <<sessions, socks, db>>
          /\ StartsNoCall
          /\ resp'.status = ReadStatus(db[x.t])
          /\ resp'.qr = ReadQr(db[x.t])]_vars

\* C9 amended: GET creates nothing and leaves the registry alone; it answers
\* the entry's status and challenge, and without an entry part_000 answers
\* the persisted status and challenge (disconnected without a row) while both
\* wa-server.js versions answer disconnected without reading the store.
C9_GetReadsOnly ==
  [][/\ \A t \in tenants : GetSession(t) =>
          /\ UNCHANGED <<sessions, socks, db>>
          /\ StartsNoCall
          /\ sessions[t] # NoSock => resp' = FromMemory(t)
          /\ (sessions[t] = NoSock /\ variant # "P") =>
               /\ resp'.status = "disconnected"
               /\ resp'.qr = IF variant = "A" THEN KEEP ELSE NULL
               /\ UNCHANGED tasks
     /\ \A x \in Running : GetRead(x) =>
          /\ variant = "P"
          /\ UNCHANGED <<sessions, socks, db>>
          /\ StartsNoCall
          /\ resp'.status = ReadStatus(db[x.t])
          /\ resp'.qr = ReadQr(db[x.t])]_vars

\* C9 witness: part_000 answers connected for a tenant without an entry,
\* from the row an earlier run left.
C9_Witness ==
  /\ variant = "P"
  /\ resp.route = "get"
  /\ resp.status = "connected"
  /\ sessions[resp.t] = NoSock

\* C10: POST /connect for a tenant without a session leaves an entry with
\* status connecting; a qr event moves the session to qrcode and stores the
\* challenge; GET on an entry in qrcode answers qrcode and that challenge, the
\* one emitted last, never null.
C10_ConnectThenScan ==
  [][/\ \A x \in Running : (Create(x, FALSE) /\ x.c = "connect") =>
          /\ sessions'[x.t] # NoSock
          /\ socks'[sessions'[x.t]].status = "connecting"
          /\ resp'.status = "connecting"
     /\ \A s \in 1..Len(socks), q \in QRs : EmitQr(s, q) =>
          /\ socks'[s].status = "qrcode"
          /\ socks'[s].qr = q
     /\ \A t \in tenants :
          (GetSession(t) /\ sessions[t] # NoSock /\ socks[sessions[t]].status = "qrcode")
          => /\ resp'.status = "qrcode"
             /\ resp'.qr = socks[sessions[t]].qr
             /\ resp'.qr \in QRs]_vars

\* C10 witness: one connect, two challenges, and GET answers the second.
C10_Witness ==
  /\ Len(socks) = 1
  /\ left = MaxEnv - 4
  /\ resp.route = "get"
  /\ resp.status = "qrcode"
  /\ resp.qr = "q2"
  /\ db["t1"].qr # "q2"

\* C11: a send-template request answered 200 has sent its message over the
\* socket that is, at the moment of sending, the tenant's registry entry with
\* status connected.
C11_SendsOnlyWhenConnected ==
  (resp.route = "send" /\ resp.code = 200)
  => /\ sessions[resp.t] = resp.s
     /\ socks[resp.s].status = "connected"

\* C12 as claimed: a send-template request for an event without an active
\* template is answered 404, whatever the state of the tenant's session.
C12_Original ==
  [][/\ \A t \in tenants, e \in Events :
          (SendTemplate(t, e, TRUE) /\ ~HasTemplate(t, e))
          => (resp' = NoResp \/ resp'.code = 404)
     /\ \A x \in Running :
          (x.c = "send" /\ ~HasTemplate(x.t, x.e) /\ Ends(x) /\ resp'.route = "send")
          => resp'.code = 404]_vars

\* C12 amended: a send-template request for an event without an active
\* template never sends.  It is answered 404 when the tenant's session was
\* connected when the request arrived, and 400 when it was not: the route
\* looks the template up only after the connection check.
C12_NoTemplateNoSend ==
  [][/\ \A t \in tenants, e \in Events :
          (SendTemplate(t, e, TRUE) /\ ~HasTemplate(t, e))
          => IF sessions[t] # NoSock /\ socks[sessions[t]].status = "connected"
             THEN resp' = NoResp
             ELSE resp' = NoResp \/ resp'.code = 400
     /\ \A x \in Running :
          (x.c = "send" /\ ~HasTemplate(x.t, x.e) /\ Ends(x) /\ resp'.route = "send")
          => /\ resp'.code = IF x.k = "send" THEN 404 ELSE 400
             /\ resp'.ok # "true"
             /\ resp'.s = NoSock]_vars

\* C12 witness: a 404 to send-template while the tenant is connected.
C12_Witness ==
  /\ resp.route = "send"
  /\ resp.code = 404
  /\ sessions[resp.t] # NoSock
  /\ socks[sessions[resp.t]].status = "connected"

\* C13: a send-template request without event or without phone is answered
\* 400 at once and touches nothing: the registry, the sockets, the store and
\* the handlers in flight (no getOrCreateSession, no getTemplate, no update,
\* no sendMessage) are as before.
C13_ValidationNoEffects ==
  [][\A t \in tenants, e \in Events \cup {NULL}, hasPhone \in BOOLEAN :
       (SendTemplate(t, e, hasPhone) /\ (e = NULL \/ ~hasPhone))
       => /\ resp'.route = "send"
          /\ resp'.code = 400
          /\ resp'.error = "Faltan datos"
          /\ UNCHANGED <<sessions, socks, db, tasks>>]_vars

\* C13 witness: a 400 to send-template for a tenant that is absent, so that
\* a request with a complete body would have started getOrCreateSession.
C13_Witness ==
  /\ variant = "P"
  /\ resp.route = "send"
  /\ resp.code = 400
  /\ resp.error = "Faltan datos"
  /\ sessions[resp.t] = NoSock
  /\ tasks = EmptyBag

\* The connection made last for tenant t has logged out, and no call made by
\* a route is on its way to makeWASocket for t.
Terminal(t) ==
  /\ \E s \in 1..Len(socks) :
       /\ socks[s].t = t
       /\ socks[s].ts = "loggedOut"
       /\ \A i \in 1..Len(socks) : socks[i].t = t => i <= s
  /\ \A y \in Creating(t) : y.c = "reconnect"

\* C18: once the tenant's latest connection has closed with the logged-out
\* code, no connection is made for the tenant by a reconnection, that is by a
\* getOrCreateSession call no route has made.
C18_TerminalStaysDown ==
  [][\A x \in Running :
       (variant \in {"P", "A"} /\ x.c = "reconnect" /\ Create(x, FALSE))
       => ~Terminal(x.t)]_vars

\* C19: every entry of the registry holds the socket made for its tenant, one
\* on which the transport has not emitted close, and has status connecting,
\* qrcode or connected; so has every entry POST /connect answers from.
C19_EntriesAreLive ==
  /\ \A t \in TenantIds : sessions[t] # NoSock =>
       /\ sessions[t] \in 1..Len(socks)
       /\ socks[sessions[t]].t = t
       /\ ~Closed(sessions[t])
       /\ socks[sessions[t]].status \in {"connecting", "qrcode", "connected"}
  /\ (resp.route = "connect" /\ resp.code = 200)
       => resp.status \in {"connecting", "qrcode", "connected"}

\* C19 witness: the older wa-server.js has set a closed session's status to
\* disconnected, and the tenant's entry is a later connection.
C19_Witness ==
  /\ variant = "B"
  /\ Len(socks) = 2
  /\ socks[1].status = "disconnected"
  /\ sessions["t1"] = 2

\* C20: an entry of the registry has a challenge only while its status is
\* qrcode; the open handler clears it, and a close or a disconnect that ends a
\* session in qrcode removes the tenant's entry.
C20_ChallengeOnlyInQrcode ==
  [][/\ \A t \in TenantIds :
          (sessions'[t] # NoSock /\ socks'[sessions'[t]].qr # NULL)
          => socks'[sessions'[t]].status = "qrcode"
     /\ \A s \in 1..Len(socks) :
          (socks[s].status = "qrcode" /\ socks'[s].status # "qrcode")
          => (socks'[s].qr = NULL \/ sessions'[socks[s].t] # s)
     /\ \A s \in 1..Len(socks) :
          (socks[s].status = "qrcode" /\ ~Closed(s) /\ socks'[s].ts \in {"lost", "loggedOut"})
          => sessions'[socks[s].t] = NoSock]_vars

\* C20 witness: a registered session has gone from qrcode to connected while
\* the qr handler's update of the store is still on its way.
C20_Witness ==
  \E s \in 1..Len(socks) :
    /\ sessions[socks[s].t] = s
    /\ socks[s].status = "connected"
    /\ socks[s].qr = NULL
    /\ \E x \in Running : x.k = "qr" /\ x.s = s

\* C14: keys.set leaves in memory the old keys merged with the new ones (a
\* named slot takes the new value, every other slot keeps its own, none goes
\* away), and when it returns to the transport the store has written the
\* bundle it serialized.
C14_MergedAndPersisted ==
  [][/\ \A data \in Updates : KeysSet(data) =>
          /\ \A k \in Slots :
               keys'.mem[k] = IF data[k] # ABSENT THEN data[k] ELSE keys.mem[k]
          /\ keys'.saves[Len(keys'.saves)].snap = Serialize(keys'.mem)
     /\ \A i \in 1..Len(keys.saves) : SetReturns(i) =>
          keys.saves[i].st = "written"]_vars

\* C15: a message from a group (remoteJid ending in @g.us) or sent by the
\* bot's own account is not handed to the reply engine, calls no AI and leaves
\* no handler waiting, so that no reply can follow; and no reply is ever sent
\* to a group.
C15_GroupsAndOwnDropped ==
  [][/\ \A s \in 1..Len(socks), m \in Messages :
          (Upsert(s, m) /\ (m.fromMe \/ EndsWith(m.jid, <<"@g.us">>)))
          => /\ ~out'.fwd
             /\ ~out'.ai
             /\ out'.sent = <<>>
             /\ tasks' = tasks
     /\ \A x \in BagToSet(tasks') : x.k = "msg" => ~EndsWith(x.jid, <<"@g.us">>)
     /\ out'.sent # <<>> => ~EndsWith(out'.to, <<"@g.us">>)]_vars

\* C15 witness: a group message has just been dropped while the handler of
\* an earlier message of a user waits for the engine.
C15_Witness ==
  /\ out.s # 0
  /\ out.from = GroupJid
  /\ ~out.me
  /\ ~out.fwd
  /\ \E x \in Running : x.k = "msg" /\ x.jid = UserJid

\* C16: no step of the message handler lets an error escape it, and none
\* changes the registry or a session.
C16_ErrorsContained ==
  [][out'.s # 0 => (out'.err # "escaped" /\ UNCHANGED <<sessions, socks>>)]_vars

\* The text contains a pricing keyword, whatever the case of its letters.
ContainsKeyword(txt) ==
  \E kw \in PriceKeywords, i \in 1..Len(txt) :
    /\ i + Len(kw) - 1 <= Len(txt)
    /\ \A j \in 1..Len(kw) : LowerChar(txt[i + j - 1]) = kw[j]

\* The handler of x goes on with sending the rendered pricing template.
SendsPricing(x) ==
  \E y \in BagToSet(tasks') :
    /\ y.k = "msg" /\ y.pc = "send" /\ y.jid = x.jid
    /\ y.reply = RenderTemplate(TemplateBody(x.t, "pricing_pitch"))
    /\ CopiesIn(y, tasks') = CopiesIn(y, tasks) + 1

MemStatus(ss, sk, t) == IF ss[t] = NoSock THEN "disconnected" ELSE sk[ss[t]].status

\* A handler starts in this step that will write status st to t's row.
WritesStatus(t, st) ==
  \E y \in BagToSet(tasks') :
    /\ CopiesIn(y, tasks') > CopiesIn(y, tasks)
    /\ y.t = t
    /\ \E i \in 1..Len(y.ws) : y.ws[i].status = st

\* C21: every change of a tenant's in-memory status issues a write of the
\* new status to its row, and whenever no handler is suspended the status
\* read from the row of a tenant with an entry equals the entry's status
\* (part_000 and the Supabase wa-server.js, the versions that write it).
C21_RowMirrorsRegistry ==
  /\ [][\A t \in tenants :
          (variant \in {"P", "A"}
           /\ MemStatus(sessions', socks', t) # MemStatus(sessions, socks, t))
          => WritesStatus(t, MemStatus(sessions', socks', t))]_vars
  /\ [](\A t \in tenants :
          (variant \in {"P", "A"} /\ tasks = EmptyBag /\ sessions[t] # NoSock)
          => ReadStatus(db[t]) = MemStatus(sessions, socks, t))

\* C23: the store updates of one connection's events are applied in the
\* order of the events: the transport emits qr before open and close, so no
\* update of the open or close handler of a socket is applied while an update
\* of a qr handler of the same socket is still to be applied.
C23_EventsInOrder ==
  [][\A x \in Running :
       (DbApply(x) /\ x.k \in {"open", "close"})
       => ~\E y \in Running : y.k = "qr" /\ y.s = x.s]_vars

\* C26: a message whose remoteJid is the status broadcast is not handed to
\* the reply engine and leaves no handler waiting to reply.
C26_StatusDropped ==
  [][\A s \in 1..Len(socks), m \in Messages :
       (Upsert(s, m) /\ m.jid = StatusJid)
       => (~out'.fwd /\ tasks' = tasks)]_vars

C27_NoOrphanConnection ==
  [][/\ \A s \in 1..Len(socks') :
          socks'[s].ts \notin {"lost", "loggedOut"} => sessions'[socks'[s].t] = s
     /\ \A s \in 1..Len(socks) :
          (~Closed(s) /\ socks'[s].ts \in {"lost", "loggedOut"} /\ sessions[socks[s].t] # s)
          => sessions'[socks[s].t] = sessions[socks[s].t]]_vars

\* C28: in the step that follows the answer of a disconnect that found the
\* tenant's session, no getOrCreateSession call starts for the tenant other
\* than one a route makes, and no handler starts that writes credentials to
\* the tenant's row.
C28_DisconnectedStaysDown ==
  [][(resp.route = "disconnect" /\ resp.code = 200 /\ resp.s # NoSock)
       => \A y \in BagToSet(tasks') :
            (y.t = resp.t /\ CopiesIn(y, tasks') > CopiesIn(y, tasks))
            => /\ y.k = "gocs" => y.c # "reconnect"
               /\ \A i \in 1..Len(y.ws) : y.ws[i].auth <= 0]_vars

\* C29: when every keys.set call still waiting to return had its update
\* applied by the store, the stored auth_state is the serialized bundle the
\* auth state holds in memory.
C29_LatestBundlePersisted ==
  (keys.saves # <<>> /\ \A i \in 1..Len(keys.saves) : keys.saves[i].st = "written")
  => keys.row.keys = Serialize(keys.mem)

\* C22: when the store answers an update of a connection.update handler,
\* with an error or without, the handler goes on in the same way: a failed
\* update leaves the row as it was and is not sent again, the handler's next
\* update is the one after it, nothing the handler had set in the registry
\* or the session is undone, and after the last update of the qr part the
\* connection part of the same event is processed (connected without a
\* challenge on open, the entry removed on close).  The qr part itself sets
\* status and challenge before any update is sent.
C22_FailedWriteKeepsMemory ==
  [][/\ \A x \in Running, fails \in BOOLEAN :
          UpdateAnswered(x, fails)
          => /\ fails => db' = db
             /\ Ends(x)
             /\ Len(x.ws) > 1 => tasks' = Add(Del(tasks, x), [x EXCEPT !.ws = Tail(x.ws)])
             /\ IF Len(x.ws) > 1 \/ x.e = KEEP
                  THEN socks' = socks /\ sessions' = sessions
                  ELSE IF x.e = "open"
                    THEN /\ socks' = [socks EXCEPT ![x.s].status = "connected",
                                                    ![x.s].qr = NULL, ![x.s].ts = "open"]
                         /\ sessions' = sessions
                    ELSE /\ sessions' = [sessions EXCEPT ![x.t] = NoSock]
                         /\ \A i \in 1..Len(socks) : i # x.s => socks'[i] = socks[i]
                         /\ Closed(x.s)'
     /\ \A s \in 1..Len(socks), u \in ConnUpdates :
          (ConnectionUpdate(s, u) /\ u.qr # NULL /\ u.connection = KEEP)
          => (socks'[s].status = "qrcode" /\ socks'[s].qr = u.qr)]_vars

\* C22 witness: in part_000 the open handler has finished although the store
\* refused its update of the row: the session is connected, the row still
\* says disconnected, and the handler's next update, of tenants, was made.
C22_Witness ==
  /\ variant = "P"
  /\ tasks = EmptyBag
  /\ sessions["t1"] = 1
  /\ socks[1].status = "connected"
  /\ db["t1"].status = "disconnected"
  /\ db["t1"].wa = 1

\* The step is a request for tenant t, an event on a connection of t, or the
\* next stretch of a handler working for t.
StepOf(t) ==
  \/ Connect(t)
  \/ GetSession(t)
  \/ Disconnect(t)
  \/ \E e \in Events \cup {NULL}, hasPhone \in BOOLEAN : SendTemplate(t, e, hasPhone)
  \/ \E x \in Running :
       /\ x.t = t
       /\ \/ Load(x)
          \/ \E throws \in BOOLEAN : Create(x, throws)
          \/ GetRead(x)
          \/ DbApply(x)
          \/ \E ok \in BOOLEAN : LogoutResolve(x, ok)
          \/ DisconnectDone(x)
          \/ \E sendOk \in BOOLEAN : SendTpl(x, sendOk)
  \/ \E s \in 1..Len(socks) :
       /\ socks[s].t = t
       /\ \/ \E q \in QRs : EmitQr(s, q)
          \/ EmitOpen(s)
          \/ \E loggedOut \in BOOLEAN : EmitClose(s, loggedOut)
          \/ EmitCreds(s)

\* The step leaves everything of tenant u as it was: its entry, its
\* connections with their status and challenge, its row, its handlers.
Untouched(u) ==
  /\ sessions'[u] = sessions[u]
  /\ db'[u] = db[u]
  /\ \A i \in 1..Len(socks) : socks[i].t = u => socks'[i] = socks[i]
  /\ \A i \in 1..Len(socks') : socks'[i].t = u => i <= Len(socks)
  /\ \A y \in BagToSet(tasks) \cup BagToSet(tasks') :
       y.t = u => CopiesIn(y, tasks') = CopiesIn(y, tasks)

====
